---- MODULE Spec2Model ----
(***************************************************************************)
(* Model of calculator_v2: the Calculator engine (calculator.py) and the   *)
(* FastAPI handlers over one shared Calculator instance (main.py).         *)
(*                                                                         *)
(* Python strings are sequences of one-character strings, so that          *)
(* str.lower(), f-string formatting and ', '.join are computed character   *)
(* by character.  Numbers are exact rationals [n, d] in lowest terms with  *)
(* d > 0; operands are drawn from bounded integer ranges, so floating      *)
(* point rounding and overflow to inf are outside the model.               *)
(***************************************************************************)
EXTENDS Integers, Sequences, FiniteSets, TLC

VARIABLES
    _operations,   \* Calculator._operations of the shared instance (calculator.py:41)
    call,          \* the last direct call of Calculator.calculate and its outcome
    held,          \* the list object a caller got from get_supported_operations
    listed,        \* what the last get_supported_operations call returned
    frames,        \* per thread: the POST /calculate invocation it is running
    locals,        \* per invocation: the locals of Calculator.calculate
    response,      \* the last POST /calculate request and its reply
    ops_response   \* the last GET /operations reply

vars == <<_operations, call, held, listed, frames, locals, response, ops_response>>

(* ------------------------------ bounds -------------------------------- *)

\* operands of direct engine calls range over -MaxNum..MaxNum
MaxNum == 2
\* an operation name is tried with every upper/lower-casing of its first
\* MaxCasePos characters (and fully upper-cased)
MaxCasePos == 2
\* concurrently running POST /calculate invocations
NumThreads == 2

(* ------------------------------ numbers ------------------------------- *)

Abs(x) == IF x < 0 THEN -x ELSE x

RECURSIVE GCD(_, _)
GCD(x, y) == IF y = 0 THEN x ELSE GCD(y, x % y)

\* the rational n/d (d # 0) in lowest terms with a positive denominator
Norm(n, d) ==
    LET g == GCD(Abs(n), Abs(d))
        s == IF d < 0 THEN -1 ELSE 1
    IN  [n |-> (s * n) \div g, d |-> (s * d) \div g]

Num(i) == [n |-> i, d |-> 1]

Zero == Num(0)

RatAdd(a, b) == Norm(a.n * b.d + b.n * a.d, a.d * b.d)

RatSub(a, b) == Norm(a.n * b.d - b.n * a.d, a.d * b.d)

RatMul(a, b) == Norm(a.n * b.n, a.d * b.d)

RatDiv(a, b) == Norm(a.n * b.d, a.d * b.n)

(* ------------------------------ strings ------------------------------- *)

UpperCase == <<"A", "B", "C", "D", "E", "F", "G", "H", "I", "J", "K", "L", "M",
               "N", "O", "P", "Q", "R", "S", "T", "U", "V", "W", "X", "Y", "Z">>

LowerCase == <<"a", "b", "c", "d", "e", "f", "g", "h", "i", "j", "k", "l", "m",
               "n", "o", "p", "q", "r", "s", "t", "u", "v", "w", "x", "y", "z">>

\* str.lower() on one character
lower_char(c) ==
    IF \E i \in 1..Len(UpperCase) : UpperCase[i] = c
    THEN LowerCase[CHOOSE i \in 1..Len(UpperCase) : UpperCase[i] = c]
    ELSE c

\* no normalisation of the name
lower_identity(s) == s

\* str.lower()
lower(s) == [i \in 1..Len(s) |-> lower_char(s[i])]

\* str.upper() on one character
upper_char(c) ==
    IF \E i \in 1..Len(LowerCase) : LowerCase[i] = c
    THEN UpperCase[CHOOSE i \in 1..Len(LowerCase) : LowerCase[i] = c]
    ELSE c

\* sep.join(parts)
RECURSIVE join(_, _)
join(sep, parts) ==
    IF parts = <<>> THEN <<>>
    ELSE IF Len(parts) = 1 THEN parts[1]
    ELSE parts[1] \o sep \o join(sep, Tail(parts))

\* `part in text` for strings
Contains(text, part) ==
    \E i \in 0..(Len(text) - Len(part)) :
        \A j \in 1..Len(part) : text[i + j] = part[j]

(* ------------------------- calculator.py ------------------------------ *)

ADD == <<"a", "d", "d">>

SUBTRACT == <<"s", "u", "b", "t", "r", "a", "c", "t">>

MULTIPLY == <<"m", "u", "l", "t", "i", "p", "l", "y">>

DIVIDE == <<"d", "i", "v", "i", "d", "e">>

Return(v) == [kind |-> "return", value |-> v]

Raise(exc, msg) == [kind |-> exc, message |-> msg]

CannotDivideByZero ==
    <<"C", "a", "n", "n", "o", "t", " ", "d", "i", "v", "i", "d", "e", " ",
      "b", "y", " ", "z", "e", "r", "o">>

UnsupportedPrefix ==
    <<"U", "n", "s", "u", "p", "p", "o", "r", "t", "e", "d", " ", "o", "p",
      "e", "r", "a", "t", "i", "o", "n", ":", " ">>

SupportedPrefix ==
    <<".", " ", "S", "u", "p", "p", "o", "r", "t", "e", "d", " ", "o", "p",
      "e", "r", "a", "t", "i", "o", "n", "s", ":", " ">>

CommaSpace == <<",", " ">>

add(a, b) == Return(RatAdd(a, b))

subtract(a, b) == Return(RatSub(a, b))

multiply(a, b) == Return(RatMul(a, b))

FloatDivisionByZero ==
    <<"f", "l", "o", "a", "t", " ", "d", "i", "v", "i", "s", "i", "o", "n", " ",
      "b", "y", " ", "z", "e", "r", "o">>

\* divide without its guard: a / 0 raises Python's own ZeroDivisionError
divide_unguarded(a, b) ==
    IF b = Zero
    THEN Raise("ZeroDivisionError", FloatDivisionByZero)
    ELSE Return(RatDiv(a, b))

divide(a, b) ==
    IF b = Zero
    THEN Raise("ZeroDivisionError", CannotDivideByZero)
    ELSE Return(RatDiv(a, b))

\* the dict with two methods bound to the wrong names
Calculator_init_swapped ==
    << [key |-> ADD,      method |-> "add"],
       [key |-> SUBTRACT, method |-> "multiply"],
       [key |-> MULTIPLY, method |-> "subtract"],
       [key |-> DIVIDE,   method |-> "divide"] >>

\* Calculator.__init__: the dict, in insertion order, of name -> bound method
Calculator_init ==
    << [key |-> ADD,      method |-> "add"],
       [key |-> SUBTRACT, method |-> "subtract"],
       [key |-> MULTIPLY, method |-> "multiply"],
       [key |-> DIVIDE,   method |-> "divide"] >>

\* dict.keys(), in insertion order
keys(d) == [i \in 1..Len(d) |-> d[i].key]

\* `k in d`
has_key(d, k) == \E i \in 1..Len(d) : d[i].key = k

\* d[k]
get_item(d, k) == d[CHOOSE i \in 1..Len(d) : d[i].key = k].method

\* calling a bound method of the Calculator (calling anything else is a
\* TypeError)
call_method(m, a, b) ==
    CASE m = "add"      -> add(a, b)
      [] m = "subtract" -> subtract(a, b)
      [] m = "multiply" -> multiply(a, b)
      [] m = "divide"   -> divide(a, b)
      [] OTHER          -> Raise("TypeError", <<>>)

\* the message without the list of supported operations
unsupported_message_short(d, operation) == UnsupportedPrefix \o operation

unsupported_message(d, operation) ==
    UnsupportedPrefix \o operation \o SupportedPrefix \o join(CommaSpace, keys(d))

\* Calculator.calculate on the dict d
calculate(d, operation, num1, num2) ==
    LET op == lower(operation)
    IN  IF ~ has_key(d, op)
        THEN Raise("ValueError", unsupported_message(d, op))
        ELSE call_method(get_item(d, op), num1, num2)

\* the keys in reverse insertion order
get_supported_operations_reversed(d) == [i \in 1..Len(d) |-> d[Len(d) + 1 - i].key]

\* Calculator.get_supported_operations: a new list of the keys
get_supported_operations(d) == keys(d)

(* ------------------------------ main.py ------------------------------- *)

\* class OperationType(str, Enum): the values of its members
OperationType == {ADD, SUBTRACT, MULTIPLY, DIVIDE}

EnumErrorMessage ==
    <<"I", "n", "p", "u", "t", " ", "s", "h", "o", "u", "l", "d", " ", "b", "e",
      " ", "'", "a", "d", "d", "'", ",", " ", "'", "s", "u", "b", "t", "r", "a",
      "c", "t", "'", ",", " ", "'", "m", "u", "l", "t", "i", "p", "l", "y", "'",
      " ", "o", "r", " ", "'", "d", "i", "v", "i", "d", "e", "'">>

UnexpectedPrefix ==
    <<"A", "n", " ", "u", "n", "e", "x", "p", "e", "c", "t", "e", "d", " ", "e",
      "r", "r", "o", "r", " ", "o", "c", "c", "u", "r", "r", "e", "d", ":", " ">>

\* HTTPException(status_code, detail) as the response the client gets
HTTPException(status_code, detail) == [status |-> status_code, detail |-> detail]

\* validation of the body against CalculationRequest: operation must be the
\* value of an OperationType member, else the request is answered 422 and the
\* handler is not called
validates(body) == body.operation \in OperationType

validation_error(body) == HTTPException(422, EnumErrorMessage)

\* the handler with num1 and num2 exchanged in the response
calculate_response_swapped(request, outcome) ==
    CASE outcome.kind = "return" ->
            [status |-> 200, operation |-> request.operation,
             num1 |-> request.num2, num2 |-> request.num1, result |-> outcome.value]
      [] outcome.kind = "ZeroDivisionError" -> HTTPException(400, outcome.message)
      [] outcome.kind = "ValueError" -> HTTPException(400, outcome.message)
      [] OTHER -> HTTPException(500, UnexpectedPrefix \o outcome.message)

\* the handler without its except ZeroDivisionError clause
calculate_response_no_zde(request, outcome) ==
    CASE outcome.kind = "return" ->
            [status |-> 200, operation |-> request.operation,
             num1 |-> request.num1, num2 |-> request.num2, result |-> outcome.value]
      [] outcome.kind = "ValueError" -> HTTPException(400, outcome.message)
      [] OTHER -> HTTPException(500, UnexpectedPrefix \o outcome.message)

\* POST /calculate handler, after the engine call: the CalculationResponse on
\* a return, the except clauses in their order on an exception
calculate_response(request, outcome) ==
    CASE outcome.kind = "return" ->
            [status |-> 200, operation |-> request.operation,
             num1 |-> request.num1, num2 |-> request.num2, result |-> outcome.value]
      [] outcome.kind = "ZeroDivisionError" -> HTTPException(400, outcome.message)
      [] outcome.kind = "ValueError" -> HTTPException(400, outcome.message)
      [] OTHER -> HTTPException(500, UnexpectedPrefix \o outcome.message)

\* POST /calculate handler on a validated request
calculate_handler(d, request) ==
    calculate_response(request,
        calculate(d, request.operation, request.num1, request.num2))

\* POST /calculate end to end: boundary validation, then the handler
post_calculate(d, body) ==
    IF validates(body) THEN calculate_handler(d, body) ELSE validation_error(body)

AdditionText ==
    <<"A", "d", "d", "i", "t", "i", "o", "n", " ", "(", "a", " ", "+", " ", "b", ")">>

SubtractionText ==
    <<"S", "u", "b", "t", "r", "a", "c", "t", "i", "o", "n", " ", "(", "a", " ",
      "-", " ", "b", ")">>

MultiplicationText ==
    <<"M", "u", "l", "t", "i", "p", "l", "i", "c", "a", "t", "i", "o", "n", " ",
      "(", "a", " ", "×", " ", "b", ")">>

DivisionText ==
    <<"D", "i", "v", "i", "s", "i", "o", "n", " ", "(", "a", " ", "÷", " ", "b", ")">>

OperationPrefix == <<"O", "p", "e", "r", "a", "t", "i", "o", "n", ":", " ">>

\* the chain with the multiply branch missing
operation_info_no_multiply(op) ==
    IF op = ADD
    THEN [operation |-> op, description |-> AdditionText, symbol |-> "+"]
    ELSE IF op = SUBTRACT
    THEN [operation |-> op, description |-> SubtractionText, symbol |-> "-"]
    ELSE IF op = DIVIDE
    THEN [operation |-> op, description |-> DivisionText, symbol |-> "÷"]
    ELSE [operation |-> op, description |-> OperationPrefix \o op, symbol |-> "?"]

\* the if/elif chain of get_operations for one key
operation_info(op) ==
    IF op = ADD
    THEN [operation |-> op, description |-> AdditionText, symbol |-> "+"]
    ELSE IF op = SUBTRACT
    THEN [operation |-> op, description |-> SubtractionText, symbol |-> "-"]
    ELSE IF op = MULTIPLY
    THEN [operation |-> op, description |-> MultiplicationText, symbol |-> "×"]
    ELSE IF op = DIVIDE
    THEN [operation |-> op, description |-> DivisionText, symbol |-> "÷"]
    ELSE [operation |-> op, description |-> OperationPrefix \o op, symbol |-> "?"]

\* GET /operations
get_operations(d) ==
    LET supported_ops == get_supported_operations(d)
        operations_info == [i \in 1..Len(supported_ops) |-> operation_info(supported_ops[i])]
    IN  [status |-> 200,
         supported_operations |-> operations_info,
         total_count |-> Len(operations_info)]

\* the operation name and the method kept on the shared instance
local_slot_shared(t) == 1

\* the frame that holds the locals of one invocation of Calculator.calculate:
\* each invocation has its own
local_slot(t) == t

(* ----------------------- callers of the engine ------------------------ *)

POWER == <<"p", "o", "w", "e", "r">>

\* names a caller passes to calculate: the four keys, names that are no key
\* (a prefix of a key, an extension of a key, a symbol, the empty string)
BaseNames ==
    {ADD, SUBTRACT, MULTIPLY, DIVIDE, POWER,
     <<"a", "d">>, <<"a", "d", "d", "s">>, <<"+">>, <<>>}

upper(s) == [i \in 1..Len(s) |-> upper_char(s[i])]

\* s with any of its first MaxCasePos characters upper-cased, and s upper-cased
CaseVariants(s) ==
    { [i \in 1..Len(s) |-> IF i \in U THEN upper_char(s[i]) ELSE s[i]] :
        U \in SUBSET (1..(IF Len(s) < MaxCasePos THEN Len(s) ELSE MaxCasePos)) }
    \cup {upper(s)}

OperationNames == UNION {CaseVariants(s) : s \in BaseNames}

Operands == {Num(i) : i \in (-MaxNum)..MaxNum}

NoCall == [operation |-> <<>>, pending |-> FALSE]

NoList == [held |-> FALSE]

NotListed == [called |-> FALSE]

Threads == 1..NumThreads

IdleFrame == [pc |-> "idle"]

NoLocals == [operation |-> <<>>, operation_method |-> ""]

NoResponse == [status |-> 0]

Init ==
    /\ _operations = Calculator_init
    /\ call = NoCall
    /\ held = NoList
    /\ listed = NotListed
    /\ frames = [t \in Threads |-> IdleFrame]
    /\ locals = [t \in Threads |-> NoLocals]
    /\ response = NoResponse
    /\ ops_response = NoResponse

\* a caller invokes calculator.calculate(s, a, b) and keeps the outcome
Calculate(s, a, b) ==
    /\ call = NoCall
    /\ call' = [operation |-> s, pending |-> TRUE, num1 |-> a, num2 |-> b,
                outcome |-> calculate(_operations, s, a, b)]
    /\ UNCHANGED <<_operations, held, listed, frames, locals, response, ops_response>>

\* the caller lets go of the outcome of its last call
Forget ==
    /\ call # NoCall
    /\ call' = NoCall
    /\ UNCHANGED <<_operations, held, listed, frames, locals, response, ops_response>>

\* a caller invokes calculator.get_supported_operations(); it keeps the list
\* object it is given unless it still holds an earlier one
GetSupportedOperations ==
    LET v == get_supported_operations(_operations)
    IN  /\ listed' = [called |-> TRUE, value |-> v,
                      caller_mutated |-> held # NoList /\ held.items # v]
        /\ held' = IF held = NoList THEN [held |-> TRUE, items |-> v] ELSE held
        /\ UNCHANGED <<_operations, call, frames, locals, response, ops_response>>

\* list.pop() on the list the caller holds
ListPop ==
    /\ held # NoList
    /\ held.items # <<>>
    /\ held' = [held EXCEPT !.items = SubSeq(@, 1, Len(@) - 1)]
    /\ UNCHANGED <<_operations, call, listed, frames, locals, response, ops_response>>

\* lst[0] = "power" on the list the caller holds
ListSetFirst ==
    /\ held # NoList
    /\ held.items # <<>>
    /\ held.items[1] # POWER
    /\ held' = [held EXCEPT !.items[1] = POWER]
    /\ UNCHANGED <<_operations, call, listed, frames, locals, response, ops_response>>

\* the caller lets go of the list it holds
ListDrop ==
    /\ held # NoList
    /\ held' = NoList
    /\ UNCHANGED <<_operations, call, listed, frames, locals, response, ops_response>>

Next ==
    \/ \E s \in OperationNames, a \in Operands, b \in Operands : Calculate(s, a, b)
    \/ Forget
    \/ GetSupportedOperations
    \/ ListPop
    \/ ListSetFirst
    \/ ListDrop

Spec == Init /\ [][Next]_vars

(* --------------------- requests, one at a time ------------------------ *)

\* operation strings of request bodies: the enumerated values, a name the
\* enumeration lacks, and an upper-cased value
ApiNames == OperationType \cup {POWER, upper(ADD)}

ApiOperands == Operands \cup {Num(3), Num(5), Num(10)}

Bodies == [operation : ApiNames, num1 : ApiOperands, num2 : ApiOperands]

\* a client posts body to /calculate and gets the reply
PostCalculate(body) ==
    /\ response = NoResponse
    /\ response' = [status |-> 1, request |-> body,
                    reply |-> post_calculate(_operations, body)]
    /\ UNCHANGED <<_operations, call, held, listed, frames, locals, ops_response>>

\* the client is done with the reply
DeliverResponse ==
    /\ response # NoResponse
    /\ response' = NoResponse
    /\ UNCHANGED <<_operations, call, held, listed, frames, locals, ops_response>>

\* a client gets /operations
GetOperations ==
    /\ ops_response = NoResponse
    /\ ops_response' = get_operations(_operations)
    /\ UNCHANGED <<_operations, call, held, listed, frames, locals, response>>

\* the client is done with the listing
DeliverOperations ==
    /\ ops_response # NoResponse
    /\ ops_response' = NoResponse
    /\ UNCHANGED <<_operations, call, held, listed, frames, locals, response>>

NextApi ==
    \/ \E body \in Bodies : PostCalculate(body)
    \/ DeliverResponse
    \/ GetOperations
    \/ DeliverOperations

SpecApi == Init /\ [][NextApi]_vars

(* ------------------- requests, steps interleaved ---------------------- *)

ConcBodies ==
    [operation : OperationType \cup {POWER}, num1 : {Num(10)}, num2 : {Zero, Num(5)}]

\* thread t takes a request: validation, then the handler calls
\* calculator.calculate, binding its parameter operation
Receive(t, body) ==
    /\ frames[t].pc = "idle"
    /\ IF validates(body)
       THEN /\ frames' = [frames EXCEPT ![t] = [pc |-> "lower", request |-> body]]
            /\ locals' = [locals EXCEPT ![local_slot(t)] =
                              [operation |-> body.operation, operation_method |-> ""]]
       ELSE /\ frames' = [frames EXCEPT ![t] =
                              [pc |-> "done", request |-> body,
                               response |-> validation_error(body)]]
            /\ UNCHANGED locals
    /\ UNCHANGED <<_operations, call, held, listed, response, ops_response>>

\* operation = operation.lower()
Lower(t) ==
    /\ frames[t].pc = "lower"
    /\ locals' = [locals EXCEPT ![local_slot(t)].operation = lower(@)]
    /\ frames' = [frames EXCEPT ![t].pc = "lookup"]
    /\ UNCHANGED <<_operations, call, held, listed, response, ops_response>>

\* the membership test, then the raise or operation_method = self._operations[operation]
Lookup(t) ==
    /\ frames[t].pc = "lookup"
    /\ LET op == locals[local_slot(t)].operation
       IN  IF ~ has_key(_operations, op)
           THEN /\ frames' = [frames EXCEPT ![t] =
                                  [pc |-> "respond", request |-> frames[t].request,
                                   outcome |-> Raise("ValueError",
                                                     unsupported_message(_operations, op))]]
                /\ locals' = [locals EXCEPT ![local_slot(t)] = NoLocals]
           ELSE /\ frames' = [frames EXCEPT ![t].pc = "invoke"]
                /\ locals' = [locals EXCEPT ![local_slot(t)].operation_method =
                                  get_item(_operations, op)]
    /\ UNCHANGED <<_operations, call, held, listed, response, ops_response>>

\* return operation_method(num1, num2)
Invoke(t) ==
    /\ frames[t].pc = "invoke"
    /\ frames' = [frames EXCEPT ![t] =
                      [pc |-> "respond", request |-> frames[t].request,
                       outcome |-> call_method(locals[local_slot(t)].operation_method,
                                               frames[t].request.num1,
                                               frames[t].request.num2)]]
    /\ locals' = [locals EXCEPT ![local_slot(t)] = NoLocals]
    /\ UNCHANGED <<_operations, call, held, listed, response, ops_response>>

\* the handler builds the response or converts the exception
Respond(t) ==
    /\ frames[t].pc = "respond"
    /\ frames' = [frames EXCEPT ![t] =
                      [pc |-> "done", request |-> frames[t].request,
                       response |-> calculate_response(frames[t].request,
                                                       frames[t].outcome)]]
    /\ UNCHANGED <<_operations, call, held, listed, locals, response, ops_response>>

\* the response is sent and the thread is free again
Finish(t) ==
    /\ frames[t].pc = "done"
    /\ frames' = [frames EXCEPT ![t] = IdleFrame]
    /\ UNCHANGED <<_operations, call, held, listed, locals, response, ops_response>>

NextConc ==
    \/ \E t \in Threads, body \in ConcBodies : Receive(t, body)
    \/ \E t \in Threads : Lower(t)
    \/ \E t \in Threads : Lookup(t)
    \/ \E t \in Threads : Invoke(t)
    \/ \E t \in Threads : Respond(t)
    \/ \E t \in Threads : Finish(t)

SpecConc == Init /\ [][NextConc]_vars

(* ------------------------- engine properties -------------------------- *)

CanonicalKeys == <<ADD, SUBTRACT, MULTIPLY, DIVIDE>>

\* s and k are the same string up to the case of their letters
EqualsIgnoreCase(s, k) ==
    /\ Len(s) = Len(k)
    /\ \A i \in 1..Len(s) : upper_char(s[i]) = upper_char(k[i])

Unsupported(s) == \A i \in 1..Len(CanonicalKeys) : ~ EqualsIgnoreCase(s, CanonicalKeys[i])

SupportedList ==
    <<"a", "d", "d", ",", " ", "s", "u", "b", "t", "r", "a", "c", "t", ",", " ",
      "m", "u", "l", "t", "i", "p", "l", "y", ",", " ", "d", "i", "v", "i", "d", "e">>

\* C1: calculate(op, a, b) for a canonical key op returns the value of the
\* arithmetic function op names: a+b, a-b, a*b, and for b # 0 the quotient q
\* with q*b = a; no key is dispatched to another key's function.
C1_DispatchCorrect ==
    call # NoCall =>
        LET a == call.num1
            b == call.num2
            r == call.outcome
        IN  /\ call.operation = ADD =>
                r = Return(Num(a.n + b.n))
            /\ call.operation = SUBTRACT =>
                r = Return(Num(a.n - b.n))
            /\ call.operation = MULTIPLY =>
                r = Return(Num(a.n * b.n))
            /\ (call.operation = DIVIDE /\ b # Zero) =>
                /\ r.kind = "return"
                /\ r.value.d > 0
                /\ r.value.n * b.n = a.n * r.value.d
                /\ GCD(Abs(r.value.n), r.value.d) = 1

C1_Witness ==
    /\ call # NoCall
    /\ call.operation = DIVIDE
    /\ call.num1 = Num(1)
    /\ call.num2 = Num(-2)
    /\ call.outcome = Return([n |-> -1, d |-> 2])

\* C2: calculate("divide", a, 0) raises ZeroDivisionError("Cannot divide by
\* zero") for every a, a = 0 included, and returns nothing; add, subtract and
\* multiply never raise it when the second operand is 0.
C2_DivideByZero ==
    call # NoCall =>
        /\ (call.operation = DIVIDE /\ call.num2 = Zero) =>
              call.outcome = [kind |-> "ZeroDivisionError", message |-> CannotDivideByZero]
        /\ (call.operation \in {ADD, SUBTRACT, MULTIPLY} /\ call.num2 = Zero) =>
              call.outcome.kind = "return"

C2_Witness ==
    /\ call # NoCall
    /\ call.operation = DIVIDE
    /\ call.num1 = Zero
    /\ call.num2 = Zero
    /\ call.outcome.kind = "ZeroDivisionError"

\* C3 as stated: for s that is no key under case-insensitive comparison,
\* calculate(s, a, b) raises the unsupported-operation ValueError, whose
\* message carries the key s as it was passed and lists the four valid keys.
C3_CarriesKeyAsPassed ==
    (call # NoCall /\ Unsupported(call.operation)) =>
        /\ call.outcome.kind = "ValueError"
        /\ Contains(call.outcome.message, UnsupportedPrefix \o call.operation)
        /\ Contains(call.outcome.message, SupportedList)

\* C3 amended: for s that is no key under case-insensitive comparison,
\* calculate(s, a, b) raises ValueError for all a, b (b = 0 included), with the
\* message "Unsupported operation: <s lower-cased>. Supported operations:
\* add, subtract, multiply, divide".
C3_CarriesLoweredKey ==
    (call # NoCall /\ Unsupported(call.operation)) =>
        /\ call.outcome.kind = "ValueError"
        /\ call.outcome.message =
              UnsupportedPrefix \o lower(call.operation) \o SupportedPrefix \o SupportedList

C3_Witness ==
    /\ call # NoCall
    /\ call.operation = upper(POWER)
    /\ call.num2 = Zero
    /\ call.outcome.kind = "ValueError"
    /\ Contains(call.outcome.message, UnsupportedPrefix \o POWER)
    /\ ~ Contains(call.outcome.message, upper(POWER))

\* C4: calculate is case-insensitive on the operation name: a call with a
\* case variant v of a canonical key k has the outcome of the call with k
\* itself, the same value or the same error.
C4_CaseInsensitive ==
    call # NoCall =>
        \A i \in 1..Len(CanonicalKeys) :
            EqualsIgnoreCase(call.operation, CanonicalKeys[i]) =>
                call.outcome =
                    calculate(_operations, CanonicalKeys[i], call.num1, call.num2)

C4_Witness ==
    /\ call # NoCall
    /\ call.operation = <<"A", "D", "D">>
    /\ call.num1 = Num(2)
    /\ call.num2 = Num(1)
    /\ call.outcome = Return(Num(3))

\* C5: after any sequence of calculate and get_supported_operations calls,
\* and of mutations of a returned list, the engine's mapping is the one built
\* at construction and get_supported_operations returned exactly
\* [add, subtract, multiply, divide].
C5_MappingFixed ==
    /\ Len(_operations) = 4
    /\ \A i \in 1..4 : _operations[i].key = CanonicalKeys[i]
    /\ _operations[1].method = "add"
    /\ _operations[2].method = "subtract"
    /\ _operations[3].method = "multiply"
    /\ _operations[4].method = "divide"
    /\ listed.called => listed.value = CanonicalKeys

C5_Witness ==
    /\ listed.called
    /\ listed.caller_mutated
    /\ held # NoList
    /\ held.items = <<POWER, SUBTRACT>>
    /\ call # NoCall
    /\ call.outcome.kind = "ValueError"

(* -------------------------- API properties ---------------------------- *)

\* C6: a request whose operation is one of the four enumerated values, other
\* than divide with num2 = 0, is answered 200 with the operation name and the
\* operands of the request and the result Calculator.calculate returns for
\* them; add, 10, 5 gives 15.
C6_SuccessEchoesRequest ==
    (/\ response # NoResponse
     /\ response.request.operation \in OperationType
     /\ ~ (response.request.operation = DIVIDE /\ response.request.num2 = Zero)) =>
        LET q == response.request
            r == response.reply
        IN  /\ r.status = 200
            /\ r.operation = q.operation
            /\ r.num1 = q.num1
            /\ r.num2 = q.num2
            /\ Return(r.result) = calculate(_operations, q.operation, q.num1, q.num2)
            /\ (q = [operation |-> ADD, num1 |-> Num(10), num2 |-> Num(5)]) =>
                  r.result = Num(15)

C6_Witness ==
    /\ response # NoResponse
    /\ response.request = [operation |-> SUBTRACT, num1 |-> Num(10), num2 |-> Num(5)]
    /\ response.reply =
          [status |-> 200, operation |-> SUBTRACT, num1 |-> Num(10), num2 |-> Num(5),
           result |-> Num(5)]

\* C7: when the engine call of the handler raises ZeroDivisionError or the
\* unsupported-operation ValueError, the reply is 400 with the exception's
\* message as detail; every request with operation divide and num2 = 0 is
\* answered 400 with a detail containing "Cannot divide by zero".
C7_EngineErrorsAre400 ==
    (response # NoResponse /\ validates(response.request)) =>
        LET q == response.request
            e == calculate(_operations, q.operation, q.num1, q.num2)
        IN  /\ e.kind \in {"ZeroDivisionError", "ValueError"} =>
                /\ response.reply.status = 400
                /\ response.reply.detail = e.message
            /\ (q.operation = DIVIDE /\ q.num2 = Zero) =>
                /\ response.reply.status = 400
                /\ Contains(response.reply.detail, CannotDivideByZero)

C7_Witness ==
    /\ response # NoResponse
    /\ response.request = [operation |-> DIVIDE, num1 |-> Num(10), num2 |-> Zero]
    /\ response.reply = [status |-> 400, detail |-> CannotDivideByZero]

\* C8: a request {operation: "power", num1: 2, num2: 3}, and any request whose
\* operation is not one of the four keys, is answered with a client error
\* whose message contains the engine's "Unsupported operation: <key>".
C8_UnsupportedMessageEndToEnd ==
    (response # NoResponse /\ Unsupported(response.request.operation)) =>
        /\ response.reply.status \in 400..499
        /\ Contains(response.reply.detail,
                    UnsupportedPrefix \o lower(response.request.operation))

\* C10: GET /operations returns four entries, for add, subtract, multiply and
\* divide in that order, each with its own description and symbol, and
\* total_count is the number of entries, 4.
C10_OperationsListing ==
    ops_response # NoResponse =>
        /\ ops_response.supported_operations =
              << [operation |-> ADD, description |-> AdditionText, symbol |-> "+"],
                 [operation |-> SUBTRACT, description |-> SubtractionText, symbol |-> "-"],
                 [operation |-> MULTIPLY, description |-> MultiplicationText, symbol |-> "×"],
                 [operation |-> DIVIDE, description |-> DivisionText, symbol |-> "÷"] >>
        /\ ops_response.total_count = 4
        /\ ops_response.total_count = Len(ops_response.supported_operations)
        /\ \A i \in 1..Len(ops_response.supported_operations) :
              ops_response.supported_operations[i].symbol # "?"

C10_Witness ==
    /\ ops_response # NoResponse
    /\ ops_response.total_count = 4
    /\ response # NoResponse
    /\ response.reply.status = 400

(* ---------------------- concurrency properties ------------------------ *)

\* C9: under any interleaving of the steps of concurrent POST /calculate
\* requests on the shared Calculator, each finished request has the response
\* it gets when handled alone, and the shared mapping is as constructed.
C9_ResponsesIndependent ==
    /\ _operations = Calculator_init
    /\ \A t \in Threads :
          frames[t].pc = "done" =>
              frames[t].response = post_calculate(Calculator_init, frames[t].request)

C9_Witness ==
    /\ frames[1].pc = "done"
    /\ frames[1].request.operation = ADD
    /\ frames[1].response.status = 200
    /\ frames[2].pc = "respond"
    /\ frames[2].outcome.kind = "ZeroDivisionError"

====
